---------------------------- MODULE Spec2Model ----------------------------
(***************************************************************************)
(* Model of the sensor temperature prediction pipeline of                  *)
(* src/src/model/predictive_model.py: the per-sensor feature engineering   *)
(* (FeatureEngineer, SensorTemperaturePredictor.prepare_features) and the  *)
(* fit / predict life cycle of SensorTemperaturePredictor.                 *)
(*                                                                         *)
(* Data representation.  A table (pandas DataFrame) is a sequence of rows, *)
(* a row is a record whose fields are the column names.  Numbers are       *)
(* integers; the missing value (NaN) of a number column is Null.  A        *)
(* rolling mean is the reduced fraction [num, den]; a rolling standard     *)
(* deviation is represented by its square, the sample variance, as a       *)
(* reduced fraction (the square root is injective and sign preserving on   *)
(* these values); the missing value of such a column is NullFrac, 0/0.     *)
(* sin and cos are tabulated in thousandths.  A timestamp is the number of *)
(* hours since 2024-01-01T00:00, a Monday.                                 *)
(***************************************************************************)
EXTENDS Integers, Sequences, FiniteSets, TLC

VARIABLES
  train_df,         \* per run: the raw train table handed to prepare_features
  test_df,          \* per run: the raw test table handed to prepare_features
  train_processed,  \* per run: the list of per-sensor train frames (line 172)
  test_processed,   \* per run: the list of per-sensor test frames (line 173)
  train_out,        \* per run: the train frame returned by prepare_features
  test_out,         \* per run: the test frame returned by prepare_features
  log,              \* per run: the logger.info events of prepare_features
  pc,               \* per run: "start", "loaded", "done" or "error"
  scaler,           \* self.scaler, the StandardScaler
  model,            \* self.model, the RandomForestRegressor
  feature_columns,  \* self.feature_columns
  calls,            \* the number of train calls made so far
  last_train,       \* how the latest train call ended: "none", "completed", "failed"
  last_fit,         \* the matrix of the latest train call that returned, if any
  result,           \* what the latest method call did and returned
  X_train,          \* per run: main's X_train = train_df[feature_columns]
  predictor_scaler  \* per run: predictor.scaler of main

fe_vars == <<train_df, test_df, train_processed, test_processed,
             train_out, test_out, log, pc>>

fit_vars == <<scaler, model, feature_columns, calls, last_train, last_fit, result>>

main_vars == <<X_train, predictor_scaler>>

vars == <<fe_vars, fit_vars, main_vars>>

---------------------------------------------------------------------------
(* Values *)

Null == -1000000

\* NaN of a rolling statistic.
NullFrac == [num |-> 0, den |-> 0]

RECURSIVE Gcd(_, _)
Gcd(a, b) == IF b = 0 THEN a ELSE Gcd(b, a % b)

Abs(x) == IF x < 0 THEN -x ELSE x

\* The columns holding rolling statistics (fractions).
FracColumns == {"temp_ma_6", "temp_ma_24", "humidity_ma_6", "humidity_ma_24",
                "temp_std_24", "humidity_std_24"}

\* pandas isna() of the cell of column col holding v (sensor_id is a string
\* and is never missing in the tables modelled).
isna(col, v) ==
  IF col = "sensor_id" THEN FALSE
  ELSE IF col \in FracColumns THEN v.den = 0
  ELSE v = Null

\* The fraction num/den (den > 0) in lowest terms.
Frac(num, den) ==
  LET g == Gcd(Abs(num), den)
  IN [num |-> num \div g, den |-> den \div g]

RECURSIVE SumRange(_, _, _)
\* s[lo] + ... + s[hi], by halving.
SumRange(s, lo, hi) ==
  IF lo > hi THEN 0
  ELSE IF lo = hi THEN s[lo]
  ELSE LET mid == (lo + hi) \div 2
       IN SumRange(s, lo, mid) + SumRange(s, mid + 1, hi)

SumSeq(s) == SumRange(s, 1, Len(s))

SumSqSeq(s) == SumRange([i \in 1..Len(s) |-> s[i] * s[i]], 1, Len(s))

NotNull(v) == v # Null

\* The sequence s itself, with its elements computed once (TLC evaluates
\* [i \in 1..n |-> e] anew at every application).
Eager(s) == s \o <<>>

---------------------------------------------------------------------------
(* Program constants *)

\* Faulty variant: the longest lag left out.
Lags_without_24 == <<1, 2, 3, 6, 12>>

\* lags = [1, 2, 3, 6, 12, 24]
Lags == <<1, 2, 3, 6, 12, 24>>

LagSet == {Lags[i] : i \in 1..Len(Lags)}

MaxLag == 24

ShortWindow == 6

LongWindow == 24

MinPeriods == 1

TempLagCol == [k \in LagSet |->
  CASE k = 1 -> "temp_lag_1" [] k = 2 -> "temp_lag_2" [] k = 3 -> "temp_lag_3"
    [] k = 6 -> "temp_lag_6" [] k = 12 -> "temp_lag_12" [] k = 24 -> "temp_lag_24"]

HumidityLagCol == [k \in LagSet |->
  CASE k = 1 -> "humidity_lag_1" [] k = 2 -> "humidity_lag_2"
    [] k = 3 -> "humidity_lag_3" [] k = 6 -> "humidity_lag_6"
    [] k = 12 -> "humidity_lag_12" [] k = 24 -> "humidity_lag_24"]

\* The columns of the raw tables (load_data reads every column of the CSV
\* file; "extra" stands for any column beyond the six the pipeline names).
RawColumns == {"sensor_id", "timestamp", "latitude", "longitude",
               "humidity", "temperature", "extra"}

\* Faulty variant: the list without quarter, 29 columns.
feature_columns_without_quarter ==
  << "latitude", "longitude",
     "hour", "day_of_week", "month", "day_of_month",
     "hour_sin", "hour_cos", "month_sin", "month_cos",
     "humidity",
     "temp_lag_1", "temp_lag_2", "temp_lag_3",
     "temp_lag_6", "temp_lag_12", "temp_lag_24",
     "humidity_lag_1", "humidity_lag_2", "humidity_lag_3",
     "humidity_lag_6", "humidity_lag_12", "humidity_lag_24",
     "temp_ma_6", "temp_ma_24",
     "humidity_ma_6", "humidity_ma_24",
     "temp_std_24", "humidity_std_24" >>

\* define_features: the list assigned to self.feature_columns.
feature_columns_list ==
  << "latitude", "longitude",
     "hour", "day_of_week", "month", "day_of_month", "quarter",
     "hour_sin", "hour_cos", "month_sin", "month_cos",
     "humidity",
     "temp_lag_1", "temp_lag_2", "temp_lag_3",
     "temp_lag_6", "temp_lag_12", "temp_lag_24",
     "humidity_lag_1", "humidity_lag_2", "humidity_lag_3",
     "humidity_lag_6", "humidity_lag_12", "humidity_lag_24",
     "temp_ma_6", "temp_ma_24",
     "humidity_ma_6", "humidity_ma_24",
     "temp_std_24", "humidity_std_24" >>

FeatureColumnSet == {feature_columns_list[i] : i \in 1..Len(feature_columns_list)}

---------------------------------------------------------------------------
(* create_temporal_features *)

\* 1000 * sin(2 * pi * k / 24), rounded, for k = 0..23.
SinTable == << 0, 259, 500, 707, 866, 966, 1000, 966, 866, 707, 500, 259,
               0, -259, -500, -707, -866, -966, -1000, -966, -866, -707,
               -500, -259 >>

Sin24(k) == SinTable[(k % 24) + 1]

\* Days of the months of 2024.
MonthDays == <<31, 29, 31, 30, 31, 30, 31, 31, 30, 31, 30, 31>>

RECURSIVE MonthOfDay(_, _)
\* The month (1..12) holding day-of-year d (0-based), searched from month m.
MonthOfDay(d, m) ==
  IF m = 12 \/ d < MonthDays[m] THEN m ELSE MonthOfDay(d - MonthDays[m], m + 1)

RECURSIVE DayInMonth(_, _)
DayInMonth(d, m) ==
  IF m = 12 \/ d < MonthDays[m] THEN d + 1 ELSE DayInMonth(d - MonthDays[m], m + 1)

TemporalFields(ts) ==
  LET hour  == ts % 24
      day   == ts \div 24
      month == MonthOfDay(day, 1)
  IN [ hour         |-> hour,
       day_of_week  |-> day % 7,
       month        |-> month,
       day_of_month |-> DayInMonth(day, 1),
       quarter      |-> ((month - 1) \div 3) + 1,
       hour_sin     |-> Sin24(hour),
       hour_cos     |-> Sin24(hour + 6),
       month_sin    |-> Sin24(2 * month),
       month_cos    |-> Sin24(2 * month + 6) ]

\* df.copy() extended with the calendar and cyclical columns.
create_temporal_features(df) ==
  Eager([i \in 1..Len(df) |-> df[i] @@ TemporalFields(df[i].timestamp)])

---------------------------------------------------------------------------
(* create_lag_features *)

\* The position row i of df takes when df is ordered by timestamp (rows
\* of equal timestamp keep their order).
Rank(df, i) ==
  Cardinality({j \in 1..Len(df) :
                 \/ df[j].timestamp < df[i].timestamp
                 \/ df[j].timestamp = df[i].timestamp /\ j <= i})

\* Faulty variant: the rows left in the order of the table.
sort_values_skipped(df) == df

\* df.sort_values('timestamp')
sort_values(df) ==
  LET rank == Eager([i \in 1..Len(df) |-> Rank(df, i)])
  IN Eager([k \in 1..Len(df) |-> df[CHOOSE i \in 1..Len(df) : rank[i] = k]])

\* Faulty variant: shift(-lag), the value lag rows later.
shift_lead(df, col, lag, i) ==
  IF i + lag <= Len(df) THEN df[i + lag][col] ELSE Null

\* series.shift(lag) at position i (1-based)
shift(df, col, lag, i) == IF i - lag >= 1 THEN df[i - lag][col] ELSE Null

\* The non-null observations of the trailing window of `window` rows at i.
WindowObs(df, col, window, i) ==
  LET lo == IF i - window + 1 >= 1 THEN i - window + 1 ELSE 1
      w  == [j \in 1..(i - lo + 1) |-> df[lo + j - 1][col]]
  IN SelectSeq(w, NotNull)

\* Faulty variant: rolling(window).mean(), which needs a full window.
rolling_mean_full_window(df, col, window, i) ==
  LET obs == WindowObs(df, col, window, i)
  IN IF Len(obs) >= window THEN Frac(SumSeq(obs), Len(obs)) ELSE NullFrac

\* series.rolling(window, min_periods=1).mean() at position i
rolling_mean(df, col, window, i) ==
  LET obs == WindowObs(df, col, window, i)
  IN IF Len(obs) >= MinPeriods THEN Frac(SumSeq(obs), Len(obs)) ELSE NullFrac

\* Faulty variant: std(ddof=0), the population variance, defined from one
\* observation on.
rolling_std_population(df, col, window, i) ==
  LET obs == WindowObs(df, col, window, i)
      n   == Len(obs)
      s   == SumSeq(obs)
  IN IF n >= MinPeriods THEN Frac(n * SumSqSeq(obs) - s * s, n * n) ELSE NullFrac

\* series.rolling(window, min_periods=1).std() at position i, squared:
\* the sample variance (ddof = 1), missing with fewer than 2 observations.
rolling_std(df, col, window, i) ==
  LET obs == WindowObs(df, col, window, i)
      n   == Len(obs)
      s   == SumSeq(obs)
  IN IF n >= MinPeriods /\ n > 1
     THEN Frac(n * SumSqSeq(obs) - s * s, n * (n - 1))
     ELSE NullFrac

LagFields(df, i) ==
  [c \in {TempLagCol[k] : k \in LagSet} \cup {HumidityLagCol[k] : k \in LagSet} |->
     LET k == CHOOSE k \in LagSet : c \in {TempLagCol[k], HumidityLagCol[k]}
     IN IF c = TempLagCol[k] THEN shift(df, "temperature", k, i)
        ELSE shift(df, "humidity", k, i)]

RollingFields(df, i) ==
  [ temp_ma_6       |-> rolling_mean(df, "temperature", ShortWindow, i),
    temp_ma_24      |-> rolling_mean(df, "temperature", LongWindow, i),
    humidity_ma_6   |-> rolling_mean(df, "humidity", ShortWindow, i),
    humidity_ma_24  |-> rolling_mean(df, "humidity", LongWindow, i),
    temp_std_24     |-> rolling_std(df, "temperature", LongWindow, i),
    humidity_std_24 |-> rolling_std(df, "humidity", LongWindow, i) ]

\* Faulty variant: the rows of every sensor.
SensorRows_unfiltered(df, sensor_id) == df

\* df[df['sensor_id'] == sensor_id]
SensorRows(df, sensor_id) ==
  LET Mine(row) == row.sensor_id = sensor_id IN SelectSeq(df, Mine)

create_lag_features(df, sensor_id) ==
  LET df_sensor == sort_values(SensorRows(df, sensor_id))
  IN Eager([i \in 1..Len(df_sensor) |->
        df_sensor[i] @@ LagFields(df_sensor, i) @@ RollingFields(df_sensor, i)])

---------------------------------------------------------------------------
(* prepare_features *)

\* df['sensor_id'].unique(): the sensor ids in order of first appearance.
unique(df) ==
  LET first == {i \in 1..Len(df) :
                  \A j \in 1..(i - 1) : df[j].sensor_id # df[i].sensor_id}
  IN [k \in 1..Cardinality(first) |->
        df[CHOOSE i \in first : Cardinality({j \in first : j <= i}) = k].sensor_id]

InSeq(x, s) == \E i \in 1..Len(s) : s[i] = x

RECURSIVE concat(_)
\* pd.concat(frames, ignore_index=True) of a non-empty list of frames.
concat(frames) ==
  IF frames = <<>> THEN <<>> ELSE Head(frames) \o concat(Tail(frames))

HasNull(row) == \E c \in DOMAIN row : isna(c, row[c])

\* Faulty variant: dropna(subset=feature_columns).
dropna_subset(df) ==
  LET Complete(row) ==
        \A k \in 1..Len(feature_columns_list) :
          ~isna(feature_columns_list[k], row[feature_columns_list[k]])
  IN SelectSeq(df, Complete)

\* Faulty variant: no row dropped.
dropna_skipped(df) == df

\* df.dropna(): the rows with no missing value in any column.
dropna(df) == LET Complete(row) == ~HasNull(row) IN SelectSeq(df, Complete)

\* One sensor's frame: lines 178-180 (train) and 184-186 (test).
SensorFrame(df, sensor_id) ==
  create_lag_features(create_temporal_features(SensorRows(df, sensor_id)),
                      sensor_id)

\* The list train_processed at the end of the loop of lines 175-187.
TrainProcessed(train, test) ==
  LET ids == unique(train)
  IN [k \in 1..Len(ids) |-> SensorFrame(train, ids[k])]

\* Faulty variant: the test rows' history carried over from the train table.
TestProcessed_carry(train, test) ==
  LET InTest(id) == InSeq(id, unique(test))
      ids == SelectSeq(unique(train), InTest)
  IN [k \in 1..Len(ids) |->
        LET frame == SensorFrame(train \o test, ids[k])
        IN SubSeq(frame, Len(SensorRows(train, ids[k])) + 1, Len(frame))]

\* Faulty variant: a loop over the sensors of the test table.
TestProcessed_own(train, test) ==
  LET ids == unique(test)
  IN [k \in 1..Len(ids) |-> SensorFrame(test, ids[k])]

\* The list test_processed at the end of the loop: one frame per sensor of
\* the train table that is also in the test table (line 183).
TestProcessed(train, test) ==
  LET InTest(id) == InSeq(id, unique(test))
      ids == SelectSeq(unique(train), InTest)
  IN [k \in 1..Len(ids) |-> SensorFrame(test, ids[k])]

LogEntry(msg, sensor, ntrain, ntest) ==
  [msg |-> msg, sensor |-> sensor, train |-> ntrain, test |-> ntest]

\* logger.info of lines 170 and 176.
LoopLog(train) ==
  LET ids == unique(train)
  IN <<LogEntry("Engineering features...", "", 0, 0)>> \o
     [k \in 1..Len(ids) |-> LogEntry("Processing sensor", ids[k], 0, 0)]

---------------------------------------------------------------------------
(* The tables load_data may read *)

\* The longest series of one sensor in one table.
MaxLen == 30

Runs == {1, 2}

Sensors == {"A", "B"}

Splits == {"train", "test"}

\* First timestamp of a split: 2024-01-31T20:00 and 2024-03-31T22:00.
FirstHour(split) == IF split = "train" THEN 30 * 24 + 20 ELSE 90 * 24 + 22

\* A series has n readings on consecutive hours; the readings from
\* position tail on (tail > 0) are shifted, and one cell may be missing.
Shapes ==
  { [n |-> n, tail |-> 0, nullcol |-> "none", nullpos |-> 0] :
      n \in {0, 1, MaxLag, MaxLag + 1, MaxLen} }
  \cup { [n |-> MaxLen, tail |-> t, nullcol |-> "none", nullpos |-> 0] :
           t \in {2, MaxLag + 3} }
  \cup { [n |-> MaxLen, tail |-> 0, nullcol |-> "temperature", nullpos |-> MaxLag + 3],
         [n |-> MaxLen, tail |-> 0, nullcol |-> "humidity", nullpos |-> 3],
         [n |-> MaxLen, tail |-> 0, nullcol |-> "humidity", nullpos |-> 1],
         [n |-> MaxLen, tail |-> 0, nullcol |-> "extra", nullpos |-> MaxLag + 4] }

Reading(sensor, split, j, shape) ==
  LET bump == IF shape.tail > 0 /\ j >= shape.tail THEN 7 ELSE 0
      temp == (IF sensor = "A" THEN 200 + 3 * j ELSE 150 + 2 * j) + bump
      hum  == (IF sensor = "A" THEN 900 - 5 * j ELSE 600 + ((j * j) % 11)) + bump
      Cell(col, v) == IF shape.nullcol = col /\ shape.nullpos = j THEN Null ELSE v
  IN [ sensor_id   |-> sensor,
       timestamp   |-> FirstHour(split) + j - 1,
       latitude    |-> IF sensor = "A" THEN -2355 ELSE -2290,
       longitude   |-> IF sensor = "A" THEN -4663 ELSE -4320,
       humidity    |-> Cell("humidity", hum),
       temperature |-> Cell("temperature", temp),
       extra       |-> Cell("extra", 0) ]

Series(sensor, split, shape) ==
  [j \in 1..shape.n |-> Reading(sensor, split, j, shape)]

Reverse(s) == [i \in 1..Len(s) |-> s[Len(s) + 1 - i]]

\* a[1], b[1], a[2], b[2], ... and then the rest of the longer one.
Interleave(a, b) ==
  LET m == IF Len(a) < Len(b) THEN Len(a) ELSE Len(b)
      rest == IF Len(a) > m THEN SubSeq(a, m + 1, Len(a)) ELSE SubSeq(b, m + 1, Len(b))
  IN [i \in 1..(2 * m) |-> IF i % 2 = 1 THEN a[(i + 1) \div 2] ELSE b[i \div 2]]
     \o rest

Orders == {"grouped", "reversed", "interleaved"}

\* A table holding the rows of a and of b in the given row order.
Table(order, a, b) ==
  CASE order = "grouped"     -> a \o b
    [] order = "reversed"    -> Reverse(a \o b)
    [] order = "interleaved" -> Interleave(b, Reverse(a))

---------------------------------------------------------------------------
(* The estimators of SensorTemperaturePredictor *)

\* The most rows of a feature matrix handed to train or predict.
MaxRows == 2

\* The most train calls on one predictor.
MaxTrainCalls == 2

\* Column lists of the matrices handed to train and predict: the list of
\* define_features, the same columns in another order, one column fewer,
\* and as many columns with one of them another column of the frame.
SwapFirstTwo(cols) == <<cols[2], cols[1]>> \o SubSeq(cols, 3, Len(cols))

DropLast(cols) == SubSeq(cols, 1, Len(cols) - 1)

ReplaceLast(cols, c) == Append(DropLast(cols), c)

ColumnLists ==
  { feature_columns_list,
    SwapFirstTwo(feature_columns_list),
    DropLast(feature_columns_list),
    ReplaceLast(feature_columns_list, "temperature") }

\* A feature matrix (DataFrame): its column labels and its number of rows.
Matrices == { [columns |-> c, n |-> n] : c \in ColumnLists, n \in {0, 1, MaxRows} }

\* The cell of row i and column j of a matrix.
Cell(i, j) == (3 * i + j + i * i) % 10

\* The cells of column j in a matrix of n rows.
Column(n, j) == [i \in 1..n |-> Cell(i, j)]

\* Per number of rows and column: the mean and the population variance
\* that StandardScaler.fit computes (scale_ is the square root of var_).
ColumnMeans ==
  Eager([n \in 1..MaxRows |->
    Eager([j \in 1..Len(feature_columns_list) |-> Frac(SumSeq(Column(n, j)), n)])])

ColumnVars ==
  Eager([n \in 1..MaxRows |->
    Eager([j \in 1..Len(feature_columns_list) |->
      Frac(n * SumSqSeq(Column(n, j)) - SumSeq(Column(n, j)) * SumSeq(Column(n, j)),
           n * n)])])

\* A target vector of n values.
Target(n) == [i \in 1..n |-> 200 + i]

\* StandardScaler() and RandomForestRegressor(...) as constructed.
UnfittedScaler ==
  [fitted |-> FALSE, feature_names_in |-> <<>>, mean |-> <<>>, var |-> <<>>, fit |-> 0]

UnfittedModel == [fitted |-> FALSE, n_features_in |-> 0, fit |-> 0]

\* StandardScaler.fit(X): the column labels seen, the mean and the
\* variance of every column, and the train call that fitted it.
FittedScaler(X, call) ==
  [ fitted |-> TRUE,
    feature_names_in |-> X.columns,
    mean |-> SubSeq(ColumnMeans[X.n], 1, Len(X.columns)),
    var  |-> SubSeq(ColumnVars[X.n], 1, Len(X.columns)),
    fit  |-> call ]

\* RandomForestRegressor.fit on a scaled matrix of that many columns.
FittedModel(X, call) ==
  [fitted |-> TRUE, n_features_in |-> Len(X.columns), fit |-> call]

\* Whether StandardScaler.fit(X) raises: no sample to fit on.
ScalerFitRaises(X) == X.n = 0

\* Whether RandomForestRegressor.fit(X_scaled, y) raises: X and y of
\* different lengths.
ModelFitRaises(X, y) == Len(y) # X.n

\* An ensemble that predicts whether or not it was fitted.
ModelPredictRaises_never(m, X) == FALSE

\* A scaler that compares only the number of columns with the number seen
\* in fit.
ScalerTransformRaises_by_count(sc, X) ==
  \/ ~sc.fitted
  \/ X.n = 0
  \/ Len(X.columns) # Len(sc.feature_names_in)

\* Whether self.scaler.transform(X) raises (line 250): the scaler is not
\* fitted, X has no row, or the column labels of X are not the labels seen
\* in fit, in the same order (scikit-learn 1.2 and later).
ScalerTransformRaises(sc, X) ==
  \/ ~sc.fitted
  \/ X.n = 0
  \/ X.columns # sc.feature_names_in

\* Whether self.model.predict(X_scaled) raises (line 251): the ensemble is
\* not fitted, or X_scaled has not the number of columns seen in fit.
ModelPredictRaises(m, X) ==
  \/ ~m.fitted
  \/ Len(X.columns) # m.n_features_in

\* self.model.predict(self.scaler.transform(X)): one value per row of X,
\* a function of that row, of the fit of the scaler that scaled it and of
\* the fit of the ensemble that predicted from it.
Predictions(m, sc, X) ==
  Eager([i \in 1..X.n |-> [row |-> i, scaler_fit |-> sc.fit, model_fit |-> m.fit]])

\* What predict(X) does: "raised" with no value, or "returned" with the
\* array of predictions.
PredictOutcome(sc, m, X) ==
  IF ScalerTransformRaises(sc, X) \/ ModelPredictRaises(m, X)
  THEN [op |-> "predict", status |-> "raised", X |-> X, value |-> <<>>]
  ELSE [op |-> "predict", status |-> "returned", X |-> X,
        value |-> Predictions(m, sc, X)]

\* Faulty variant: fit_transform in place of transform at line 250, which
\* refits the scaler on the matrix given to predict.
ScalerAfterFitTransform(sc, X) ==
  IF X.n = 0 THEN UnfittedScaler ELSE FittedScaler(X, sc.fit)

\* self.scaler after self.scaler.transform(X) (line 250): transform reads
\* the fitted parameters and assigns none.
ScalerAfterTransform(sc, X) == sc

\* The vectors handed to evaluate as y_true and as y_pred.
TrueVectors == {<<>>, <<5>>, <<5, 5>>, <<5, 6>>}

PredVectors == {<<>>, <<5>>, <<5, 5>>, <<5, 7>>}

\* y_true - y_pred, per position.
Residuals(y_true, y_pred) == [i \in 1..Len(y_true) |-> y_true[i] - y_pred[i]]

\* mean_absolute_error (line 270).
mean_absolute_error(y_true, y_pred) ==
  LET d == Residuals(y_true, y_pred)
  IN Frac(SumSeq([i \in 1..Len(d) |-> Abs(d[i])]), Len(d))

\* mean_squared_error (line 271); np.sqrt of it is the rmse, kept here
\* as its square.
mean_squared_error(y_true, y_pred) ==
  Frac(SumSqSeq(Residuals(y_true, y_pred)), Len(y_true))

\* r2_score (line 272): NaN with fewer than two samples; with a constant
\* y_true 1.0 for exact predictions and 0.0 otherwise; else
\* 1 - SS_res / SS_tot.
r2_score(y_true, y_pred) ==
  LET n      == Len(y_true)
      ss_res == SumSqSeq(Residuals(y_true, y_pred))
      tot_n  == n * SumSqSeq(y_true) - SumSeq(y_true) * SumSeq(y_true)
  IN IF n < 2 THEN NullFrac
     ELSE IF tot_n = 0 THEN (IF ss_res = 0 THEN Frac(1, 1) ELSE Frac(0, 1))
     ELSE Frac(tot_n - n * ss_res, tot_n)

\* What evaluate(y_true, y_pred) does: the metrics raise on vectors of
\* different lengths and on empty vectors; else the dictionary of line 279.
EvaluateOutcome(y_true, y_pred) ==
  IF Len(y_true) # Len(y_pred) \/ Len(y_true) = 0
  THEN [op |-> "evaluate", status |-> "raised", y_true |-> y_true, y_pred |-> y_pred,
        value |-> <<>>]
  ELSE [op |-> "evaluate", status |-> "returned", y_true |-> y_true, y_pred |-> y_pred,
        value |-> [mae  |-> mean_absolute_error(y_true, y_pred),
                   rmse |-> mean_squared_error(y_true, y_pred),
                   r2   |-> r2_score(y_true, y_pred)]]

\* The weight of column j in the ensemble fitted by the given train call,
\* and the total weight of n_features columns.
Weight(fit, j) == 1 + ((7 * j + 3 * fit) % 5)

TotalWeight(fit, n_features) == SumSeq([j \in 1..n_features |-> Weight(fit, j)])

\* a > b, for fractions.
GreaterFrac(a, b) == a.num * b.den > b.num * a.den

\* The values top_n takes.
TopNs == {0, 1, 10, Len(feature_columns_list) + 1}

\* The order sort_values leaves rows of equal importance in is not fixed by
\* the code (quicksort): they keep their order or come reversed.
TieOrders == <<"kept", "reversed">>

\* Faulty variant: the positions in ascending order of importance.
argsort_ascending(imp, ties) ==
  LET n == Len(imp)
      rank == Eager([j \in 1..n |->
                1 + Cardinality({k \in 1..n :
                      \/ GreaterFrac(imp[j], imp[k])
                      \/ imp[k] = imp[j] /\ (IF ties = "kept" THEN k < j ELSE k > j)})])
  IN Eager([p \in 1..n |-> CHOOSE j \in 1..n : rank[j] = p])

\* The indexer of sort_values('importance', ascending=False) (line 294):
\* the positions of imp in descending order of importance.
argsort_descending(imp, ties) ==
  LET n == Len(imp)
      rank == Eager([j \in 1..n |->
                1 + Cardinality({k \in 1..n :
                      \/ GreaterFrac(imp[k], imp[j])
                      \/ imp[k] = imp[j] /\ (IF ties = "kept" THEN k < j ELSE k > j)})])
  IN Eager([p \in 1..n |-> CHOOSE j \in 1..n : rank[j] = p])

\* Per train call and number of columns: model.feature_importances_ of the
\* ensemble that call fits, one share per column in the order of the
\* columns, summing to 1.
Importances ==
  Eager([fit \in 1..MaxTrainCalls |->
    Eager([n_features \in 1..Len(feature_columns_list) |->
      Eager([j \in 1..n_features |->
        Frac(Weight(fit, j), TotalWeight(fit, n_features))])])])

feature_importances(m) == Importances[m.fit][m.n_features_in]

\* Per train call, number of columns and order of ties: the indexer of the
\* sort of line 294.
ImportanceOrders ==
  Eager([fit \in 1..MaxTrainCalls |->
    Eager([n_features \in 1..Len(feature_columns_list) |->
      Eager([t \in 1..Len(TieOrders) |->
        argsort_descending(Importances[fit][n_features], TieOrders[t])])])])

\* DataFrame.head(n): the first n rows, or all but the last -n rows.
head(df, n) ==
  IF n >= 0 THEN SubSeq(df, 1, IF n < Len(df) THEN n ELSE Len(df))
  ELSE SubSeq(df, 1, IF Len(df) + n > 0 THEN Len(df) + n ELSE 0)

\* What get_feature_importance(top_n) does (lines 291-300): it raises when
\* the ensemble is not fitted (feature_importances_) and when
\* self.feature_columns is a list of another length than the importances
\* (pd.DataFrame); when self.feature_columns is None every row gets the
\* feature None.
ImportanceOutcome(fc, m, top_n, t) ==
  IF ~m.fitted \/ (~fc.is_none /\ Len(fc.list) # m.n_features_in)
  THEN [op |-> "get_feature_importance", status |-> "raised", top_n |-> top_n,
        value |-> <<>>]
  ELSE LET imp == feature_importances(m)
           order == ImportanceOrders[m.fit][m.n_features_in][t]
           sorted == [p \in 1..Len(imp) |->
                        [feature |-> IF fc.is_none THEN "None" ELSE fc.list[order[p]],
                         importance |-> imp[order[p]]]]
       IN [op |-> "get_feature_importance", status |-> "returned", top_n |-> top_n,
           value |-> head(sorted, top_n)]

NoCall == [op |-> "none", status |-> "none", X |-> [columns |-> <<>>, n |-> 0],
           value |-> <<>>]

\* No train call has returned yet.
NoFit == [columns |-> <<>>, n |-> 0]

TrainOutcome(status, X) == [op |-> "train", status |-> status, X |-> X, value |-> <<>>]

---------------------------------------------------------------------------
(* main: from the frames of prepare_features to the fitted scaler *)

\* df[feature_columns] (lines 321 and 323): the rows of the frame with the
\* columns of define_features only.
Select(df) == Eager([i \in 1..Len(df) |-> [c \in FeatureColumnSet |-> df[i][c]]])

\* The cell of column c holding v, as a fraction.
AsFrac(c, v) == IF c \in FracColumns THEN v ELSE [num |-> v, den |-> 1]

\* a + b over the least common denominator.
AddFrac(a, b) ==
  LET g == Gcd(a.den, b.den)
  IN Frac(a.num * (b.den \div g) + b.num * (a.den \div g), a.den * (b.den \div g))

RECURSIVE SumFracRange(_, _, _)
\* s[lo] + ... + s[hi] for fractions, by halving.
SumFracRange(s, lo, hi) ==
  IF lo = hi THEN s[lo]
  ELSE LET mid == (lo + hi) \div 2
       IN AddFrac(SumFracRange(s, lo, mid), SumFracRange(s, mid + 1, hi))

\* StandardScaler.mean_ of column c of a matrix with at least one row.
ColumnMean(X, c) ==
  LET total == SumFracRange(Eager([i \in 1..Len(X) |-> AsFrac(c, X[i][c])]), 1, Len(X))
  IN Frac(total.num, total.den * Len(X))

\* StandardScaler.var_ of column c (scale_ is its square root), from the
\* deviations of the cells from the first one; computed for the columns
\* that hold integers.
ColumnVar(X, c) ==
  IF c \in FracColumns THEN NullFrac
  ELSE LET e == Eager([i \in 1..Len(X) |-> X[i][c] - X[1][c]])
       IN Frac(Len(X) * SumSqSeq(e) - SumSeq(e) * SumSeq(e), Len(X) * Len(X))

\* predictor.scaler as constructed (line 127).
ConstructedScaler == [status |-> "constructed", n_samples_seen |-> 0, mean |-> <<>>, var |-> <<>>]

\* self.scaler.fit_transform(X) (line 235) on a matrix of the columns of
\* define_features: raises on a matrix without rows, else records the
\* mean and the variance of every column.
StandardScalerFit(X) ==
  IF Len(X) = 0
  THEN [status |-> "raised", n_samples_seen |-> 0, mean |-> <<>>, var |-> <<>>]
  ELSE [status |-> "fitted",
        n_samples_seen |-> Len(X),
        mean |-> Eager([j \in 1..Len(feature_columns_list) |->
                          ColumnMean(X, feature_columns_list[j])]),
        var  |-> Eager([j \in 1..Len(feature_columns_list) |->
                          ColumnVar(X, feature_columns_list[j])])]

\* Faulty variant: the scaler fitted again on the test matrix.
TrainedScaler_on_test(train_frame, test_frame) ==
  StandardScalerFit(Select(test_frame))

\* The scaler after predictor.train(X_train, y_train) (line 326) with the
\* X_train of line 321; X_test of line 323 is not an argument of train.
TrainedScaler(train_frame, test_frame) == StandardScalerFit(Select(train_frame))

---------------------------------------------------------------------------
(* Actions *)

Init ==
  /\ train_df = [r \in Runs |-> <<>>]
  /\ test_df = [r \in Runs |-> <<>>]
  /\ train_processed = [r \in Runs |-> <<>>]
  /\ test_processed = [r \in Runs |-> <<>>]
  /\ train_out = [r \in Runs |-> <<>>]
  /\ test_out = [r \in Runs |-> <<>>]
  /\ log = [r \in Runs |-> <<>>]
  /\ pc = [r \in Runs |-> "start"]
  /\ scaler = UnfittedScaler
  /\ model = UnfittedModel
  /\ feature_columns = [is_none |-> TRUE, list |-> <<>>]
  /\ calls = 0
  /\ last_train = "none"
  /\ last_fit = NoFit
  /\ result = NoCall
  /\ X_train = [r \in Runs |-> <<>>]
  /\ predictor_scaler = [r \in Runs |-> ConstructedScaler]

Full == [n |-> MaxLen, tail |-> 0, nullcol |-> "none", nullpos |-> 0]

Empty == [n |-> 0, tail |-> 0, nullcol |-> "none", nullpos |-> 0]

\* load_data: the two tables are whatever the two CSV files hold.  The
\* files enumerated: sensor A's train series has any shape and its test
\* series the same shape, the full one or none; sensor B's series are
\* full or absent; the rows come in any of the row orders.
LoadData ==
  /\ pc[1] = "start"
  /\ \E order \in Orders, ta \in Shapes, tb \in {Empty, Full},
        sa \in Shapes, sb \in {Empty, Full} :
       /\ sa \in {ta, Empty, Full}
       /\ train_df' = [train_df EXCEPT ![1] =
                         Table(order, Series("A", "train", ta), Series("B", "train", tb))]
       /\ test_df' = [test_df EXCEPT ![1] =
                         Table(order, Series("A", "test", sa), Series("B", "test", sb))]
  /\ pc' = [pc EXCEPT ![1] = "loaded"]
  /\ UNCHANGED <<train_processed, test_processed, train_out, test_out, log>>
  /\ UNCHANGED <<fit_vars, main_vars>>

\* prepare_features: the whole method, lines 170-197.  pd.concat raises
\* ValueError on an empty list of frames (line 189 or 190), and the call
\* then returns nothing.
prepare_features(r) ==
  /\ pc[r] = "loaded"
  /\ train_processed' = [train_processed EXCEPT ![r] =
                           TrainProcessed(train_df[r], test_df[r])]
  /\ test_processed' = [test_processed EXCEPT ![r] =
                          TestProcessed(train_df[r], test_df[r])]
  /\ IF train_processed'[r] = <<>> \/ test_processed'[r] = <<>>
     THEN /\ pc' = [pc EXCEPT ![r] = "error"]
          /\ log' = [log EXCEPT ![r] = LoopLog(train_df[r])]
          /\ UNCHANGED <<train_out, test_out>>
     ELSE /\ pc' = [pc EXCEPT ![r] = "done"]
          /\ train_out' = [train_out EXCEPT ![r] = dropna(concat(train_processed'[r]))]
          /\ test_out' = [test_out EXCEPT ![r] = dropna(concat(test_processed'[r]))]
          /\ log' = [log EXCEPT ![r] = LoopLog(train_df[r]) \o
                       <<LogEntry("Features created", "",
                                  Len(train_out'[r]), Len(test_out'[r]))>>]
  /\ UNCHANGED <<train_df, test_df>>
  /\ UNCHANGED <<fit_vars, main_vars>>

\* Two runs of the program on related files: the first run's tables ...
LoadBase ==
  /\ pc[1] = "start"
  /\ \E order \in {"grouped", "interleaved"}, sa \in {Empty, Full} :
       /\ train_df' = [train_df EXCEPT ![1] =
                         Table(order, Series("A", "train", Full), Series("B", "train", Full))]
       /\ test_df' = [test_df EXCEPT ![1] =
                         Table(order, Series("A", "test", sa), Series("B", "test", Full))]
  /\ pc' = [pc EXCEPT ![1] = "loaded"]
  /\ UNCHANGED <<train_processed, test_processed, train_out, test_out, log>>
  /\ UNCHANGED <<fit_vars, main_vars>>

Places == {"before", "after", "mixed"}

\* The rows kept, in their order, with the rows new placed among them.
Merge(place, kept, new) ==
  CASE place = "after"  -> kept \o new
    [] place = "before" -> new \o kept
    [] place = "mixed"  -> Interleave(kept, Reverse(new))

\* ... and the second run's: the first run's with the readings of one
\* sensor in one table replaced (other values, another count, another
\* place among the rows of the table).
LoadVariation ==
  /\ pc[1] \in {"done", "error"}
  /\ pc[2] = "start"
  /\ \E split \in Splits, sensor \in Sensors, shape \in Shapes, place \in Places :
       LET Others(row) == row.sensor_id # sensor
           Vary(df) == Merge(place, SelectSeq(df, Others), Series(sensor, split, shape))
       IN /\ train_df' = [train_df EXCEPT ![2] =
                            IF split = "train" THEN Vary(train_df[1]) ELSE train_df[1]]
          /\ test_df' = [test_df EXCEPT ![2] =
                           IF split = "test" THEN Vary(test_df[1]) ELSE test_df[1]]
  /\ pc' = [pc EXCEPT ![2] = "loaded"]
  /\ UNCHANGED <<train_processed, test_processed, train_out, test_out, log>>
  /\ UNCHANGED <<fit_vars, main_vars>>

\* main, lines 319-326, after prepare_features has returned.
main_train(r) ==
  /\ pc[r] = "done"
  /\ predictor_scaler[r].status = "constructed"
  /\ X_train' = [X_train EXCEPT ![r] = Select(train_out[r])]
  /\ predictor_scaler' =
       [predictor_scaler EXCEPT ![r] = TrainedScaler(train_out[r], test_out[r])]
  /\ UNCHANGED <<fe_vars, fit_vars>>

\* define_features: lines 206-219.
define_features ==
  /\ feature_columns' = [is_none |-> FALSE, list |-> feature_columns_list]
  /\ result' = [op |-> "define_features", status |-> "returned",
                X |-> NoCall.X, value |-> feature_columns_list]
  /\ UNCHANGED <<scaler, model, calls, last_train, last_fit>>
  /\ UNCHANGED <<fe_vars, main_vars>>

\* Where a train call may be interrupted by a signal of the caller: before
\* line 235 runs, or between lines 235 and 236 (a call of the library is
\* taken to run to its end or not at all).
Interrupts == {"none", "before_235", "before_236"}

\* train: lines 233-238.  scaler.fit_transform resets the scaler and then
\* fits it; model.fit validates X and y before it changes the ensemble.
train ==
  /\ calls < MaxTrainCalls
  /\ calls' = calls + 1
  /\ \E X \in Matrices, same_length \in BOOLEAN, interrupt \in Interrupts :
       LET y == Target(IF same_length THEN X.n ELSE X.n + 1)
       IN CASE interrupt = "before_235" ->
                 /\ UNCHANGED <<scaler, model>>
                 /\ last_train' = "failed"
                 /\ UNCHANGED last_fit
                 /\ result' = TrainOutcome("raised", X)
            [] interrupt # "before_235" /\ ScalerFitRaises(X) ->
                 /\ scaler' = UnfittedScaler
                 /\ UNCHANGED model
                 /\ last_train' = "failed"
                 /\ UNCHANGED last_fit
                 /\ result' = TrainOutcome("raised", X)
            [] interrupt # "before_235" /\ ~ScalerFitRaises(X)
                 /\ (interrupt = "before_236" \/ ModelFitRaises(X, y)) ->
                 /\ scaler' = FittedScaler(X, calls')
                 /\ UNCHANGED model
                 /\ last_train' = "failed"
                 /\ UNCHANGED last_fit
                 /\ result' = TrainOutcome("raised", X)
            [] OTHER ->
                 /\ scaler' = FittedScaler(X, calls')
                 /\ model' = FittedModel(X, calls')
                 /\ last_train' = "completed"
                 /\ last_fit' = X
                 /\ result' = TrainOutcome("returned", X)
  /\ UNCHANGED feature_columns
  /\ UNCHANGED <<fe_vars, main_vars>>

\* predict: lines 250-251.
predict ==
  /\ \E X \in Matrices :
       /\ result' = PredictOutcome(scaler, model, X)
       /\ scaler' = IF ~scaler.fitted THEN scaler ELSE ScalerAfterTransform(scaler, X)
  /\ UNCHANGED <<model, feature_columns, calls, last_train, last_fit>>
  /\ UNCHANGED <<fe_vars, main_vars>>

\* evaluate: lines 270-279.
evaluate ==
  /\ \E y_true \in TrueVectors, y_pred \in PredVectors :
       result' = EvaluateOutcome(y_true, y_pred)
  /\ UNCHANGED <<scaler, model, feature_columns, calls, last_train, last_fit>>
  /\ UNCHANGED <<fe_vars, main_vars>>

\* get_feature_importance: lines 291-300.
get_feature_importance ==
  /\ \E top_n \in TopNs, t \in 1..Len(TieOrders) :
       result' = ImportanceOutcome(feature_columns, model, top_n, t)
  /\ UNCHANGED <<scaler, model, feature_columns, calls, last_train, last_fit>>
  /\ UNCHANGED <<fe_vars, main_vars>>

Next ==
  \/ LoadData
  \/ prepare_features(1)

Spec == Init /\ [][Next]_vars

NextPair ==
  \/ LoadBase
  \/ prepare_features(1)
  \/ LoadVariation
  \/ prepare_features(2)

SpecPair == Init /\ [][NextPair]_vars

NextMain ==
  \/ LoadBase
  \/ prepare_features(1)
  \/ main_train(1)
  \/ LoadVariation
  \/ prepare_features(2)
  \/ main_train(2)

SpecMain == Init /\ [][NextMain]_vars

NextFit ==
  \/ define_features
  \/ train
  \/ predict
  \/ evaluate
  \/ get_feature_importance

SpecFit == Init /\ [][NextFit]_vars

---------------------------------------------------------------------------
(* Vocabulary of the properties *)

Finished(r) == pc[r] \in {"done", "error"}

Table_df(r, split) == IF split = "train" THEN train_df[r] ELSE test_df[r]

Processed(r, split) ==
  IF split = "train" THEN train_processed[r] ELSE test_processed[r]

Out(r, split) == IF split = "train" THEN train_out[r] ELSE test_out[r]

\* The rows of table df that belong to the sensor, in the order of df.
RowsOfSensor(df, sensor) ==
  LET Belongs(row) == row.sensor_id = sensor IN SelectSeq(df, Belongs)

\* The sensors with at least one row in table df.
SensorsOf(df) == {df[i].sensor_id : i \in 1..Len(df)}

\* The number of readings of a sensor in table df.
Count(df, sensor) == Cardinality({i \in 1..Len(df) : df[i].sensor_id = sensor})

\* The reading at position i (1-based) of the sensor's timestamp-ascending
\* series in table df: the one with exactly i - 1 earlier readings.
NthReading(df, sensor, i) ==
  LET mine == {j \in 1..Len(df) : df[j].sensor_id = sensor}
  IN df[CHOOSE j \in mine :
          Cardinality({m \in mine : df[m].timestamp < df[j].timestamp}) = i - 1]

\* The frames of a list, as a set.
Frames(list) == {list[k] : k \in 1..Len(list)}

\* The rows of a frame, as a set.
Rows(df) == {df[i] : i \in 1..Len(df)}

\* Whether the rows of table df are already in timestamp order.
Ascending(df) ==
  \A i \in 1..Len(df), j \in 1..Len(df) :
    i < j => df[i].timestamp <= df[j].timestamp

---------------------------------------------------------------------------
(* C1 *)

\* The sensor's timestamp-ascending series in table df.
SeriesOf(df, sensor) ==
  Eager([i \in 1..Count(df, sensor) |-> NthReading(df, sensor, i)])

LagsOfFrame(frame, df) ==
  LET id == frame[1].sensor_id
      series == SeriesOf(df, id)
  IN /\ Len(frame) = Len(series)
     /\ \A i \in 1..Len(frame), k \in LagSet :
          /\ frame[i][TempLagCol[k]] =
               IF i > k THEN series[i - k].temperature ELSE Null
          /\ frame[i][HumidityLagCol[k]] =
               IF i > k THEN series[i - k].humidity ELSE Null

\* C1: in every frame create_lag_features returns, for every lag k of
\* 1, 2, 3, 6, 12, 24, temp_lag_k (humidity_lag_k) of the row at position i
\* of the sensor's timestamp-ascending series is the raw temperature
\* (humidity) of the row k positions earlier in that series, and is
\* missing for the first k rows, whatever the row order of the input table.
C1_LagValues ==
  \A r \in Runs : Finished(r) =>
    \A split \in Splits : \A frame \in Frames(Processed(r, split)) :
      LagsOfFrame(frame, Table_df(r, split))

\* A frame of more than 24 rows computed from a table whose rows of that
\* sensor were not in timestamp order, with a defined temp_lag_24.
C1_Witness ==
  /\ Finished(1)
  /\ \E frame \in Frames(train_processed[1]) :
       /\ Len(frame) > MaxLag
       /\ ~Ascending(RowsOfSensor(train_df[1], frame[1].sensor_id))
       /\ frame[MaxLag + 1].temp_lag_24 # Null
       /\ frame[MaxLag].temp_lag_24 = Null

---------------------------------------------------------------------------
(* C5 *)

\* No cell of a raw column is missing in the rows of df.
NoRawNulls(df) ==
  \A i \in 1..Len(df) : \A c \in RawColumns : ~isna(c, df[i][c])

Max(a, b) == IF a > b THEN a ELSE b

Min(a, b) == IF a <= b THEN a ELSE b

\* The frame Out(r, split) holds, of the sensor, exactly the rows at
\* positions 24 and later (0-based) of its timestamp-ascending series.
RetainedAfterWarmUp(r, split, sensor) ==
  LET series == SeriesOf(Table_df(r, split), sensor)
      kept   == RowsOfSensor(Out(r, split), sensor)
  IN /\ Len(kept) = Max(Len(series) - 24, 0)
     /\ {kept[i].timestamp : i \in 1..Len(kept)} =
          {series[i].timestamp : i \in 25..Len(series)}

\* C5 as claimed: for every sensor and each split whose raw rows of that
\* sensor hold no missing value, the returned frame holds exactly
\* max(n - 24, 0) rows of the sensor, those at positions >= 24.
C5_AsClaimed ==
  \A r \in Runs : pc[r] = "done" =>
    \A split \in Splits, sensor \in Sensors :
      NoRawNulls(RowsOfSensor(Table_df(r, split), sensor))
        => RetainedAfterWarmUp(r, split, sensor)

\* C5, amended: the count holds for every sensor that occurs in the train
\* table; a sensor that occurs only in the test table has no row in the
\* returned test frame.
C5_RetainedRows ==
  \A r \in Runs : pc[r] = "done" =>
    \A split \in Splits, sensor \in Sensors :
      IF sensor \in SensorsOf(train_df[r])
      THEN NoRawNulls(RowsOfSensor(Table_df(r, split), sensor))
             => RetainedAfterWarmUp(r, split, sensor)
      ELSE RowsOfSensor(Out(r, split), sensor) = <<>>

\* Two sensors with 30 complete readings each in both tables: 2 * (30 - 24)
\* rows in each returned frame.
C5_Witness ==
  /\ pc[1] = "done"
  /\ \A split \in Splits, sensor \in Sensors :
       /\ Count(Table_df(1, split), sensor) = 30
       /\ NoRawNulls(Table_df(1, split))
  /\ Len(train_out[1]) = 12
  /\ Len(test_out[1]) = 12

---------------------------------------------------------------------------
(* C6 *)

\* The rows of the concatenated frame of a split, before dropna.
Assembled(r, split) == Rows(concat(Processed(r, split)))

FeatureNull(row) == \E c \in FeatureColumnSet : isna(c, row[c])

AnyNull(row) ==
  \E c \in RawColumns \cup FeatureColumnSet : isna(c, row[c])

\* C6 as claimed: a row is dropped if and only if one of the selected
\* feature columns is missing in it.
C6_AsClaimed ==
  \A r \in Runs : pc[r] = "done" =>
    \A split \in Splits : \A row \in Assembled(r, split) :
      (row \notin Rows(Out(r, split))) <=> FeatureNull(row)

\* C6, amended: a row is dropped if and only if any of its columns is
\* missing, selected as a feature or not (the target temperature and any
\* further column of the raw table included); the frame returned holds
\* rows of the assembled frame only.
C6_DropAnyNull ==
  \A r \in Runs : pc[r] = "done" =>
    \A split \in Splits :
      /\ Rows(Out(r, split)) \subseteq Assembled(r, split)
      /\ \A row \in Assembled(r, split) :
           (row \notin Rows(Out(r, split))) <=> AnyNull(row)

\* A row whose only missing cell is outside the selected features, dropped.
C6_Witness ==
  /\ pc[1] = "done"
  /\ \E row \in Assembled(1, "train") :
       /\ ~FeatureNull(row)
       /\ isna("extra", row.extra)
       /\ row \notin Rows(train_out[1])

---------------------------------------------------------------------------
(* C7 *)

\* The sensor was processed in the split and every row of its frame has a
\* missing value: it contributes no valid row.
ZeroValidRows(r, split, sensor) ==
  \E frame \in Frames(Processed(r, split)) :
    /\ frame[1].sensor_id = sensor
    /\ \A row \in Rows(frame) : AnyNull(row)

\* A log entry that reports the sensor as skipped.
SkipLogged(r, sensor) ==
  \E k \in 1..Len(log[r]) :
    log[r][k].sensor = sensor /\ log[r][k].msg # "Processing sensor"

\* The valid rows of every other sensor are all in the returned frames.
OthersKept(r, sensor) ==
  \A split \in Splits : \A row \in Assembled(r, split) :
    (row.sensor_id # sensor /\ ~AnyNull(row)) => row \in Rows(Out(r, split))

---------------------------------------------------------------------------
(* Two runs compared: C2, C3, C4 *)

BothFinished == Finished(1) /\ Finished(2)

BothReturned == pc[1] = "done" /\ pc[2] = "done"

\* The tables of the two runs differ at most in the readings of sensor b.
DifferOnlyIn(b) ==
  \A a \in Sensors \ {b} : \A split \in Splits :
    RowsOfSensor(Table_df(1, split), a) = RowsOfSensor(Table_df(2, split), a)

\* The two runs return the same rows, with the same values in every
\* column, for every sensor but b.
SameForOthers(b) ==
  \A a \in Sensors \ {b} : \A split \in Splits :
    RowsOfSensor(Out(1, split), a) = RowsOfSensor(Out(2, split), a)

FrameOf(r, split, sensor) ==
  LET mine == {f \in Frames(Processed(r, split)) : f[1].sensor_id = sensor}
  IN IF mine = {} THEN <<>> ELSE CHOOSE f \in mine : TRUE

RawPart(row) == [c \in RawColumns |-> row[c]]

\* The two series have the same readings at positions 1..i.
SamePrefix(s1, s2, i) ==
  i <= Len(s1) /\ i <= Len(s2) /\ \A j \in 1..i : s1[j] = s2[j]

\* C3: no lookahead.  The row at position i of a frame extends the
\* reading at position i of the sensor's timestamp-ascending series, and
\* every column of it is the same in two runs whose series agree up to
\* position i, whatever the later readings are.
C3_NoLookahead ==
  BothFinished =>
    \A split \in Splits, sensor \in Sensors :
      LET f1 == FrameOf(1, split, sensor)
          f2 == FrameOf(2, split, sensor)
          s1 == SeriesOf(Table_df(1, split), sensor)
          s2 == SeriesOf(Table_df(2, split), sensor)
      IN (f1 # <<>> /\ f2 # <<>>) =>
           /\ Len(f1) = Len(s1) /\ Len(f2) = Len(s2)
           /\ \A i \in 1..Len(f1) : RawPart(f1[i]) = s1[i]
           /\ \A i \in 1..Len(f1) : SamePrefix(s1, s2, i) => f1[i] = f2[i]

\* Two series that agree on more than 24 positions and differ in the
\* temperature and humidity of a later one.
C3_Witness ==
  /\ BothReturned
  /\ \E split \in Splits, sensor \in Sensors :
       LET s1 == SeriesOf(Table_df(1, split), sensor)
           s2 == SeriesOf(Table_df(2, split), sensor)
       IN \E i \in (MaxLag + 1)..(Len(s1) - 1) :
            /\ Len(s1) = Len(s2)
            /\ SamePrefix(s1, s2, i)
            /\ s1[i + 1].temperature # s2[i + 1].temperature
            /\ s1[i + 1].humidity # s2[i + 1].humidity
            /\ s1[i + 1].timestamp = s2[i + 1].timestamp
            /\ FrameOf(1, split, sensor)[i] \in Rows(Out(1, split))

\* The frames and the returned rows of a split are the same in both runs.
SameSplit(split) ==
  \A sensor \in Sensors :
    /\ FrameOf(1, split, sensor) = FrameOf(2, split, sensor)
    /\ BothReturned =>
         RowsOfSensor(Out(1, split), sensor) = RowsOfSensor(Out(2, split), sensor)

\* C4: the features of the test rows are computed from the test table
\* only and those of the train rows from the train table only: with the
\* same test table and the same sensors present in the train table, the
\* two runs end alike with the same test frames and test rows, and the
\* other way round.
C4_SplitIsolation ==
  BothFinished =>
    /\ (test_df[1] = test_df[2] /\ SensorsOf(train_df[1]) = SensorsOf(train_df[2]))
         => (pc[1] = pc[2] /\ SameSplit("test"))
    /\ (train_df[1] = train_df[2] /\ SensorsOf(test_df[1]) = SensorsOf(test_df[2]))
         => (pc[1] = pc[2] /\ SameSplit("train"))

\* The train readings of a sensor changed, the sensor kept, and rows of
\* that sensor returned in the test frame.
C4_Witness ==
  /\ BothReturned
  /\ test_df[1] = test_df[2]
  /\ SensorsOf(train_df[1]) = SensorsOf(train_df[2])
  /\ \E sensor \in Sensors :
       /\ SeriesOf(train_df[1], sensor) # SeriesOf(train_df[2], sensor)
       /\ RowsOfSensor(test_out[2], sensor) # <<>>

---------------------------------------------------------------------------
(* Properties of train and predict (SpecFit) *)

PredictFailed == result.status = "raised" /\ result.value = <<>>

\* C8: on a predictor on which no train call has ever returned, predict
\* raises and returns no prediction, whatever X it is given.
C8_PredictRequiresFit ==
  (last_fit = NoFit /\ result.op = "predict") => PredictFailed

\* C8's case: no train call has returned, one was interrupted after it had
\* fitted the scaler, and predict was given a matrix the scaler accepts.
C8_Witness ==
  /\ last_fit = NoFit
  /\ last_train = "failed"
  /\ scaler.fitted
  /\ result.op = "predict"
  /\ result.X.n > 0
  /\ result.X.columns = scaler.feature_names_in
  /\ PredictFailed

\* C9, as the specification states it: whenever the latest train call did
\* not return, neither the scaler nor the ensemble is usable and a predict
\* after it raises.
C9_AsClaimed ==
  last_train = "failed" =>
    /\ ~scaler.fitted
    /\ ~model.fitted
    /\ (result.op = "predict" => PredictFailed)

\* C10: after a train call that returned, and with no train call since,
\* predict on a matrix whose column labels are not those of the matrix of
\* that train call, in the same order, raises and returns no prediction.
C10_MismatchFails ==
  ( /\ last_train = "completed"
    /\ result.op = "predict"
    /\ result.X.columns # last_fit.columns ) => PredictFailed

\* C10's case: the matrix given to predict has rows and as many columns as
\* the matrix of the train call, but not the same labels in the same order.
C10_Witness ==
  /\ last_train = "completed"
  /\ result.op = "predict"
  /\ result.X.n > 0
  /\ Len(result.X.columns) = Len(last_fit.columns)
  /\ result.X.columns # last_fit.columns
  /\ PredictFailed

---------------------------------------------------------------------------
(* C16, C17: rolling statistics *)

\* The values recorded (not missing) in column col at the trailing w
\* positions of the series that end at position i, fewer during warm-up.
Recorded(series, col, w, i) ==
  LET first == Max(1, i - w + 1)
      Present(v) == v # Null
  IN SelectSeq([j \in 1..(i - first + 1) |-> series[first + j - 1][col]], Present)

\* The mean of a sequence of numbers as a reduced fraction; missing when
\* the sequence is empty.
MeanOf(values) ==
  IF values = <<>> THEN NullFrac ELSE Frac(SumSeq(values), Len(values))

MeanColumns ==
  { <<"temp_ma_6", "temperature", 6>>, <<"temp_ma_24", "temperature", 24>>,
    <<"humidity_ma_6", "humidity", 6>>, <<"humidity_ma_24", "humidity", 24>> }

StdColumns ==
  { <<"temp_std_24", "temperature", 24>>, <<"humidity_std_24", "humidity", 24>> }

\* C16, as the specification states it: the rolling mean at position i is
\* the mean of the values at the trailing w positions (of positions 1..i
\* during warm-up), and the first row's rolling mean is that row's own
\* value and is never missing.
C16_AsClaimed ==
  \A r \in Runs : Finished(r) =>
    \A split \in Splits : \A frame \in Frames(Processed(r, split)) :
      LET series == SeriesOf(Table_df(r, split), frame[1].sensor_id)
      IN \A c \in MeanColumns :
           /\ frame[1][c[1]] # NullFrac
           /\ frame[1][c[1]] = Frac(series[1][c[2]], 1)
           /\ \A i \in 1..Len(frame) :
                Len(Recorded(series, c[2], c[3], i)) = Min(i, c[3]) =>
                  frame[i][c[1]] = MeanOf(Recorded(series, c[2], c[3], i))

\* C16: temp_ma_w and humidity_ma_w (w = 6, 24) at position i of a
\* sensor's timestamp-ascending series are the mean of the recorded values
\* among the trailing w positions (positions 1..i while i < w), and are
\* missing exactly when none of those values is recorded; the first row's
\* rolling mean is that row's own value when it is recorded.
C16_RollingMean ==
  \A r \in Runs : Finished(r) =>
    \A split \in Splits : \A frame \in Frames(Processed(r, split)) :
      LET series == SeriesOf(Table_df(r, split), frame[1].sensor_id)
      IN \A c \in MeanColumns :
           /\ series[1][c[2]] # Null => frame[1][c[1]] = Frac(series[1][c[2]], 1)
           /\ \A i \in 1..Len(frame) :
                /\ frame[i][c[1]] = MeanOf(Recorded(series, c[2], c[3], i))
                /\ frame[i][c[1]] = NullFrac <=> Recorded(series, c[2], c[3], i) = <<>>

\* A frame longer than the long window computed from a table not in
\* timestamp order: a warm-up mean over 3 rows, a full-window mean, and a
\* window with a missing value whose mean is taken over the others.
C16_Witness ==
  /\ Finished(1)
  /\ \E frame \in Frames(train_processed[1]) :
       LET df == train_df[1]
           series == SeriesOf(df, frame[1].sensor_id)
       IN /\ Len(frame) > LongWindow
          /\ ~Ascending(RowsOfSensor(df, frame[1].sensor_id))
          /\ frame[3].temp_ma_6 = MeanOf(<<series[1].temperature, series[2].temperature,
                                          series[3].temperature>>)
          /\ frame[LongWindow + 1].temp_ma_24 # frame[LongWindow].temp_ma_24
          /\ series[3].humidity = Null
          /\ frame[4].humidity_ma_6 = MeanOf(<<series[1].humidity, series[2].humidity,
                                              series[4].humidity>>)

\* C17, as the specification states it: the rolling standard deviations
\* are missing at the first position and defined and non-negative at every
\* later position.
C17_AsClaimed ==
  \A r \in Runs : Finished(r) =>
    \A split \in Splits : \A frame \in Frames(Processed(r, split)) :
      \A c \in StdColumns : \A i \in 1..Len(frame) :
        IF i = 1 THEN frame[i][c[1]] = NullFrac
        ELSE frame[i][c[1]] # NullFrac /\ frame[i][c[1]].num >= 0

\* C17: temp_std_24 and humidity_std_24 are missing exactly at the
\* positions whose trailing 24 positions hold fewer than 2 recorded
\* values, hence always at the first position, and are defined and
\* non-negative everywhere else.
C17_RollingStd ==
  \A r \in Runs : Finished(r) =>
    \A split \in Splits : \A frame \in Frames(Processed(r, split)) :
      LET series == SeriesOf(Table_df(r, split), frame[1].sensor_id)
      IN \A c \in StdColumns :
           /\ frame[1][c[1]] = NullFrac
           /\ \A i \in 1..Len(frame) :
                IF Len(Recorded(series, c[2], c[3], i)) < 2
                THEN frame[i][c[1]] = NullFrac
                ELSE /\ frame[i][c[1]] # NullFrac
                     /\ frame[i][c[1]].num >= 0
                     /\ frame[i][c[1]].den > 0

\* A frame whose first humidity is missing: humidity_std_24 is missing at
\* positions 1 and 2 and defined at position 3, temp_std_24 is missing at
\* position 1 only.
C17_Witness ==
  /\ Finished(1)
  /\ \E frame \in Frames(train_processed[1]) :
       /\ Len(frame) > LongWindow
       /\ frame[1].humidity = Null
       /\ frame[1].humidity_std_24 = NullFrac
       /\ frame[2].humidity_std_24 = NullFrac
       /\ frame[3].humidity_std_24 # NullFrac
       /\ frame[1].temp_std_24 = NullFrac
       /\ frame[2].temp_std_24 # NullFrac
       /\ frame[2].temp_std_24.num > 0

---------------------------------------------------------------------------
(* C20: the sensors of the test frame *)

\* C20: every test frame and every returned test row belongs to a sensor
\* that occurs in the train table, and prepare_features raises, returning
\* nothing, exactly when the train table has no row or none of its sensors
\* occurs in the test table.
C20_TrainSensorsOnly ==
  \A r \in Runs : Finished(r) =>
    /\ \A frame \in Frames(test_processed[r]) :
         \A i \in 1..Len(frame) : frame[i].sensor_id \in SensorsOf(train_df[r])
    /\ SensorsOf(test_out[r]) \subseteq SensorsOf(train_df[r])
    /\ pc[r] = "error" <=>
         \/ train_df[r] = <<>>
         \/ SensorsOf(train_df[r]) \cap SensorsOf(test_df[r]) = {}
    /\ pc[r] = "error" => (train_out[r] = <<>> /\ test_out[r] = <<>>)

\* Both tables have rows, of different sensors: the call raised.
C20_Witness ==
  /\ Finished(1)
  /\ train_df[1] # <<>>
  /\ test_df[1] # <<>>
  /\ SensorsOf(train_df[1]) \cap SensorsOf(test_df[1]) = {}
  /\ test_processed[1] = <<>>
  /\ pc[1] = "error"

---------------------------------------------------------------------------
(* C14: the feature columns *)

Geographic == {"latitude", "longitude"}

Calendar == {"hour", "day_of_week", "month", "day_of_month", "quarter"}

Cyclical == {"hour_sin", "hour_cos", "month_sin", "month_cos"}

CurrentHumidity == {"humidity"}

LagColumns ==
  { "temp_lag_1", "temp_lag_2", "temp_lag_3", "temp_lag_6", "temp_lag_12",
    "temp_lag_24", "humidity_lag_1", "humidity_lag_2", "humidity_lag_3",
    "humidity_lag_6", "humidity_lag_12", "humidity_lag_24" }

RollingMeanColumns == {"temp_ma_6", "temp_ma_24", "humidity_ma_6", "humidity_ma_24"}

RollingStdColumns == {"temp_std_24", "humidity_std_24"}

\* The number of entries of the list that are in the set of names.
EntriesIn(list, names) == Cardinality({i \in 1..Len(list) : list[i] \in names})

Distinct(list) == \A i \in 1..Len(list), j \in 1..Len(list) : list[i] = list[j] => i = j

\* The list has 2 geographic, 5 calendar, 4 cyclical, 1 current-humidity,
\* 12 lag, 4 rolling-mean and 2 rolling-std entries, all distinct, and no
\* other entry.
Breakdown(list) ==
  /\ Distinct(list)
  /\ EntriesIn(list, Geographic) = 2
  /\ EntriesIn(list, Calendar) = 5
  /\ EntriesIn(list, Cyclical) = 4
  /\ EntriesIn(list, CurrentHumidity) = 1
  /\ EntriesIn(list, LagColumns) = 12
  /\ EntriesIn(list, RollingMeanColumns) = 4
  /\ EntriesIn(list, RollingStdColumns) = 2
  /\ \A i \in 1..Len(list) :
       list[i] \in Geographic \cup Calendar \cup Cyclical \cup CurrentHumidity
                     \cup LagColumns \cup RollingMeanColumns \cup RollingStdColumns

---------------------------------------------------------------------------
(* C11: the queries *)

Queries == {"predict", "evaluate", "get_feature_importance"}

\* C11: when the latest train call has returned, a call of predict, of
\* evaluate or of get_feature_importance, whatever its arguments and its
\* outcome, leaves the fitted scaler with its parameters, the fitted
\* ensemble and the stored feature-column list as they were, and both
\* estimators stay fitted.
C11_ReadOnlyQueries ==
  [][ (last_train = "completed" /\ result'.op \in Queries) =>
        /\ scaler' = scaler
        /\ model' = model
        /\ feature_columns' = feature_columns
        /\ scaler'.fitted /\ model'.fitted
        /\ last_train' = "completed" ]_vars

\* After a train call that returned, predict has just returned predictions
\* for a matrix of as many rows as never trained on, and the scaler still
\* has the parameters of that train call.
C11_Witness ==
  /\ last_train = "completed"
  /\ result.op = "predict"
  /\ result.status = "returned"
  /\ result.X.n # last_fit.n
  /\ scaler = FittedScaler(last_fit, scaler.fit)
  /\ model.fitted

---------------------------------------------------------------------------
(* C13, C18: get_feature_importance *)

ImportanceReturned ==
  result.op = "get_feature_importance" /\ result.status = "returned"

\* C13, as the specification states it: whenever get_feature_importance
\* returns names taken from the stored list, that list has the length and
\* the order of the columns of the X_train of the latest train call that
\* returned, the one the importances come from.
C13_AsClaimed ==
  (ImportanceReturned /\ ~feature_columns.is_none) =>
    feature_columns.list = last_fit.columns

\* The features of the returned rows, as a set.
Returned == {result.value[p].feature : p \in 1..Len(result.value)}

\* C18: for a fitted ensemble and a stored feature list,
\* get_feature_importance(top_n) with top_n >= 0 returns exactly
\* min(top_n, number of features) rows of distinct features, in
\* non-increasing order of importance; no feature left out has an
\* importance strictly greater than a returned one; and every returned
\* importance is the ensemble's importance at the position its feature
\* name has in the feature list.
C18_TopN ==
  (ImportanceReturned /\ ~feature_columns.is_none /\ result.top_n >= 0) =>
    LET list  == feature_columns.list
        imp   == feature_importances(model)
        value == result.value
    IN /\ model.fitted
       /\ Len(value) = Min(result.top_n, Len(list))
       /\ Cardinality(Returned) = Len(value)
       /\ \A p \in 1..Len(value), q \in 1..Len(value) :
            p < q => ~GreaterFrac(value[q].importance, value[p].importance)
       /\ \A p \in 1..Len(value) :
            \E j \in 1..Len(list) :
              list[j] = value[p].feature /\ imp[j] = value[p].importance
       /\ \A j \in 1..Len(list) :
            list[j] \notin Returned =>
              \A p \in 1..Len(value) : ~GreaterFrac(imp[j], value[p].importance)

\* Ten rows returned out of more, the last of them as important as a
\* feature left out and less important than the first.
C18_Witness ==
  /\ ImportanceReturned
  /\ ~feature_columns.is_none
  /\ result.top_n = 10
  /\ Len(result.value) = 10
  /\ GreaterFrac(result.value[1].importance, result.value[10].importance)
  /\ \E j \in 1..Len(feature_columns.list) :
       /\ feature_columns.list[j] \notin Returned
       /\ feature_importances(model)[j] = result.value[10].importance

---------------------------------------------------------------------------
(* C15: evaluate *)

Constant(y) == \A i \in 1..Len(y), j \in 1..Len(y) : y[i] = y[j]

\* C15, as the specification states it: with a y_true whose values are all
\* equal and a y_pred of the same length, evaluate returns, r2 is NaN and
\* mae and rmse are computed.
C15_AsClaimed ==
  ( /\ result.op = "evaluate"
    /\ Len(result.y_true) > 0
    /\ Len(result.y_true) = Len(result.y_pred)
    /\ Constant(result.y_true) ) =>
      /\ result.status = "returned"
      /\ result.value.r2 = NullFrac
      /\ result.value.mae # NullFrac
      /\ result.value.rmse # NullFrac

---------------------------------------------------------------------------
(* C19: the estimators predict uses *)

\* C19, as the specification states it: whenever predict returns, the
\* scaler and the ensemble it used were fitted by the same train call.
C19_AsClaimed ==
  (result.op = "predict" /\ result.status = "returned") =>
    /\ scaler.fit = model.fit
    /\ \A i \in 1..Len(result.value) :
         result.value[i].scaler_fit = result.value[i].model_fit

---------------------------------------------------------------------------
(* C12: the scaler and the test table *)

BothTrained ==
  \A r \in Runs : pc[r] = "done" /\ predictor_scaler[r].status # "constructed"

\* C12: two runs of main on the same train table that both reach the fit
\* have the same training feature matrix and, after the fit, a scaler with
\* the same parameters (or a fit that raised in both), whatever their test
\* tables.
C12_NoTestLeakage ==
  (BothTrained /\ train_df[1] = train_df[2]) =>
    /\ X_train[1] = X_train[2]
    /\ predictor_scaler[1] = predictor_scaler[2]

\* Both runs fitted a scaler on the same train table, with test tables
\* that gave different test frames.
C12_Witness ==
  /\ BothTrained
  /\ train_df[1] = train_df[2]
  /\ test_df[1] # test_df[2]
  /\ test_out[1] # test_out[2]
  /\ Len(X_train[1]) > 0
  /\ predictor_scaler[1].status = "fitted"
  /\ predictor_scaler[2].status = "fitted"

============================================================================
